---- MODULE Spec2Model ----
(***************************************************************************)
(* Model of meshes/export-meshes.py: the export of the meshes of a scene   *)
(* to a binary blob of three chunks (dat0, str0, idx0).                    *)
(*                                                                         *)
(* Bytes are naturals in 0..255 and every buffer is a sequence of bytes.   *)
(* A float is modelled by the integer n with value n/4 (all values used    *)
(* are exactly representable in binary32); a color channel is a fraction   *)
(* <<num, den>> in [0,1]; a name is a sequence of Unicode code points.     *)
(*                                                                         *)
(* Line 29 sets do_texcoord to False; lines 83-87 and 107-112 are written  *)
(* for either value, and both are modelled. The polygons of a mesh are     *)
(* those left by quads_convert_to_tris (line 65), which the script does    *)
(* not trust: line 91 asserts that each has three corners.                 *)
(***************************************************************************)
EXTENDS Integers, Sequences, FiniteSets, TLC

\* ------------------------------------------------------------------ bounds
\* Largest number of objects in the scene (bpy.data.objects).
MaxObjects == 3
\* Largest number of polygons of one mesh.
MaxPolys == 2

\* ------------------------------------------------------------ byte packing
RECURSIVE Pow2(_)
Pow2(n) == IF n = 0 THEN 1 ELSE 2 * Pow2(n - 1)

\* struct.pack('I', n): four bytes, least significant first; n must fit.
PackI(n) ==
    << n % 256, (n \div 256) % 256, (n \div 65536) % 256, (n \div 16777216) % 256 >>

\* floor(log2(a)) for a >= 1.
RECURSIVE Log2(_)
Log2(a) == IF a < 2 THEN 0 ELSE 1 + Log2(a \div 2)

\* The binary32 fields of the value n/4, n # 0 (no rounding: |n| < 2^24).
F32Fields(n) ==
    LET a == IF n < 0 THEN -n ELSE n
        k == Log2(a)
    IN  [sign |-> IF n < 0 THEN 1 ELSE 0,
         exponent |-> (k - 2) + 127,
         mantissa |-> ((a - Pow2(k)) * Pow2(23)) \div Pow2(k)]

\* struct.pack('f', x) for x = n/4: the bit pattern sign(1) exponent(8)
\* mantissa(23), least significant byte first.
PackF(n) ==
    IF n = 0 THEN << 0, 0, 0, 0 >>
    ELSE LET f == F32Fields(n)
         IN  << f.mantissa % 256,
                (f.mantissa \div 256) % 256,
                ((f.exponent % 2) * 128) + (f.mantissa \div 65536),
                (f.sign * 128) + (f.exponent \div 2) >>

\* ChannelByte rounding to the nearest integer.
ChannelByteRounded(c) == ((c[1] * 255 * 2) + c[2]) \div (2 * c[2])

\* int(c * 255) for a channel c = num/den: Python's int() truncates.
ChannelByte(c) == (c[1] * 255) \div c[2]

\* struct.pack('B', v) raises struct.error unless 0 <= v <= 255.
FitsB(v) == v >= 0 /\ v <= 255

\* struct.pack('BBBB', int(col.r * 255), int(col.g * 255), int(col.b * 255), 255)
PackColor(col) ==
    << ChannelByte(col.r), ChannelByte(col.g), ChannelByte(col.b), 255 >>

\* The UTF-8 encoding of one code point.
Utf8Char(cp) ==
    IF cp < 128 THEN << cp >>
    ELSE IF cp < 2048 THEN << 192 + (cp \div 64), 128 + (cp % 64) >>
    ELSE IF cp < 65536
         THEN << 224 + (cp \div 4096), 128 + ((cp \div 64) % 64), 128 + (cp % 64) >>
    ELSE << 240 + (cp \div 262144), 128 + ((cp \div 4096) % 64),
            128 + ((cp \div 64) % 64), 128 + (cp % 64) >>

\* bytes(name, "utf8")
RECURSIVE Utf8(_)
Utf8(name) ==
    IF name = << >> THEN << >> ELSE Utf8Char(Head(name)) \o Utf8(Tail(name))

\* struct.pack('4s', tag) for a four-character ASCII tag.
Tag(cps) == Utf8(cps)

\* ------------------------------------------------------------- mesh access
\* len(mesh.polygons[1..k]) summed in loops: the loops of a mesh are the corners
\* of its polygons in polygon order.
RECURSIVE LoopCount(_, _)
LoopCount(polys, k) ==
    IF k = 0 THEN 0 ELSE LoopCount(polys, k - 1) + Len(polys[k])

\* poly.loop_indices of the p-th polygon (1-based p; loop indices are 0-based).
LoopIndices(mesh, p) ==
    [i \in 1..Len(mesh.polygons[p]) |-> LoopCount(mesh.polygons, p - 1) + (i - 1)]

\* mesh.loops[l].vertex_index
RECURSIVE LoopVertex(_, _, _)
LoopVertex(polys, p, l) ==
    IF l < Len(polys[p]) THEN polys[p][l + 1]
    ELSE LoopVertex(polys, p + 1, l - Len(polys[p]))

\* mesh.vertices[v].co
Co(v) == << v, 0 - v, 4 >>

\* mesh.loops[l].normal after calc_normals_split()
LoopNormal(l) == IF l % 2 = 0 THEN << 0, 0, 4 >> ELSE << 0, 3, -2 >>

\* The colors of a layer that differs between the corners of a shared vertex.
SeamColors ==
    << [r |-> << 999, 1000 >>, g |-> << 1, 2 >>, b |-> << 0, 1 >>],
       [r |-> << 0, 1 >>, g |-> << 1, 1 >>, b |-> << 254, 255 >>],
       [r |-> << 1, 1000 >>, g |-> << 0, 1 >>, b |-> << 1, 1 >>],
       [r |-> << 0, 1 >>, g |-> << 0, 1 >>, b |-> << 1, 1 >>],
       [r |-> << 1, 3 >>, g |-> << 1, 256 >>, b |-> << 1, 1 >>],
       [r |-> << 1, 1 >>, g |-> << 1, 1 >>, b |-> << 1, 1 >>] >>

\* mesh.vertex_colors.active.data[l].color: one color per loop, by layer kind.
ColorAt(kind, l) ==
    IF kind = "red" THEN [r |-> << 1, 1 >>, g |-> << 0, 1 >>, b |-> << 0, 1 >>]
    ELSE SeamColors[(l % Len(SeamColors)) + 1]

ColorData(mesh) ==
    [l \in 1..LoopCount(mesh.polygons, Len(mesh.polygons)) |->
        ColorAt(mesh.color_kind, l - 1)]

\* obj.data.uv_layers.active.data: one uv per loop.
UvAt(l) == << l % 3, 4 - (2 * (l % 2)) >>

UvData(mesh) ==
    [l \in 1..LoopCount(mesh.polygons, Len(mesh.polygons)) |-> UvAt(l - 1)]

\* ------------------------------------------------------------------ scenes
None == "None"

NameEmpty == << >>
NameA == << 65 >>
NameAe == << 65, 233 >>
NameEuro == << 8364, 66 >>
NameCamera == << 67 >>

Tri == << 0, 1, 2 >>
Tri2 == << 2, 1, 3 >>
Quad == << 0, 1, 2, 3 >>

\* n triangles, the even ones sharing two vertices with the one before.
Fan(n) == [k \in 1..n |-> IF k % 2 = 1 THEN Tri ELSE Tri2]

\* Fan(n) with a quad left unconverted at position q.
WithQuad(n, q) == [k \in 1..n |-> IF k = q THEN Quad ELSE Fan(n)[k]]

Mesh(polys, color, uv) ==
    [polygons |-> polys, has_color |-> color # None, color_kind |-> color,
     has_uv |-> uv]

Obj(name, type, mesh) == [name |-> name, type |-> type, data |-> mesh]

\* The objects a scene is drawn from. Each family varies one feature: the
\* number of triangles (two of the names equal, one a prefix of another), the
\* place of an unconverted quad, a missing color layer (with and without
\* polygons), a color layer with a seam and no uv layer, a triangle whose
\* vertex indices pass the end of the color layer, and an object that is no mesh.
PlainName(n) == IF n = 0 THEN NameAe ELSE NameA

Objects ==
    { Obj(PlainName(n), "MESH", Mesh(Fan(n), "red", TRUE)) : n \in 0..MaxPolys }
    \cup { Obj(NameAe, "MESH", Mesh(WithQuad(MaxPolys, q), "red", TRUE)) :
               q \in 1..MaxPolys }
    \cup { Obj(NameEuro, "MESH", Mesh(Fan(n), None, TRUE)) : n \in 0..1 }
    \cup { Obj(NameEmpty, "MESH", Mesh(Fan(MaxPolys), "seam", FALSE)),
           Obj(NameAe, "MESH", Mesh(<< Tri2 >>, "seam", TRUE)),
           Obj(NameCamera, "CAMERA", None) }

RECURSIVE SeqsUpTo(_, _)
SeqsUpTo(S, n) ==
    IF n = 0 THEN { << >> }
    ELSE LET shorter == SeqsUpTo(S, n - 1)
         IN  shorter \cup { Append(q, x) : q \in shorter, x \in S }

Scenes == SeqsUpTo(Objects, MaxObjects)

\* lines 32-35: the names of the objects of type MESH, in scene order.
RECURSIVE ToWrite(_)
ToWrite(objs) ==
    IF objs = << >> THEN << >>
    ELSE (IF Head(objs).type = "MESH" THEN << Head(objs).name >> ELSE << >>)
         \o ToWrite(Tail(objs))

\* bpy.data.objects[name]: the first object of that name.
Lookup(objs, name) ==
    objs[CHOOSE i \in 1..Len(objs) :
            /\ objs[i].name = name
            /\ \A j \in 1..(i - 1) : objs[j].name # name]

\* -------------------------------------------------------------------- state
VARIABLES
    do_texcoord,   \* line 29: whether texcoords are written
    objects,       \* bpy.data.objects of the opened file, meshes as converted
    to_write,      \* lines 32-35
    data,          \* line 38
    strings,       \* line 41
    index,         \* line 44
    vertex_count,  \* line 46
    name_i,        \* how many names of to_write the loop of line 47 has taken
    poly_i,        \* how many polygons the loop of line 90 has taken
    uvs,           \* line 82
    pc,            \* where the script is
    outfile,       \* the file named outfile: whether it exists, and its bytes
    stdout         \* what was printed

vars == << do_texcoord, objects, to_write, data, strings, index, vertex_count,
           name_i, poly_i, uvs, pc, outfile, stdout >>

NoUvs == [is_none |-> TRUE, data |-> << >>]

\* name, obj and mesh of the running iteration of line 47.
CurName == to_write[name_i]
CurMesh == Lookup(objects, CurName).data

Init ==
    /\ do_texcoord \in BOOLEAN
    /\ objects \in Scenes
    /\ to_write = ToWrite(objects)
    /\ data = << >>
    /\ strings = << >>
    /\ index = << >>
    /\ vertex_count = 0
    /\ name_i = 0
    /\ poly_i = 0
    /\ uvs = NoUvs
    /\ pc = "mesh"
    /\ outfile = [exists |-> FALSE, bytes |-> << >>]
    /\ stdout = << >>

\* ------------------------------------------------------------ one corner
\* lines 96-99: position of the corner's vertex, then the loop's normal.
PositionNormal(vertex_index, loop_index) ==
    LET co == Co(vertex_index)
        n == LoopNormal(loop_index)
    IN  PackF(co[1]) \o PackF(co[2]) \o PackF(co[3])
        \o PackF(n[1]) \o PackF(n[2]) \o PackF(n[3])

\* ColorIndex by the corner's loop index.
ColorIndexByLoop(mesh, p, i) == LoopIndices(mesh, p)[i + 1]

\* line 104: the position in the active color layer that is read for corner i.
ColorIndex(mesh, p, i) == mesh.polygons[p][i + 1]

\* ColorReadable without the failure of reading .data of a layer that is None.
ColorReadableNoLayer(mesh, p, i) == ColorIndex(mesh, p, i) < Len(ColorData(mesh))

\* line 104 raises when there is no active layer (None has no data) or the
\* position is past the end of the layer.
ColorReadable(mesh, p, i) ==
    /\ mesh.has_color
    /\ ColorIndex(mesh, p, i) < Len(ColorData(mesh))

\* line 104
Col(mesh, p, i) == ColorData(mesh)[ColorIndex(mesh, p, i) + 1]

\* AppendColor with = for +=.
AssignColor(d, col) == PackColor(col)

\* line 105
AppendColor(d, col) == d \o PackColor(col)

\* Texcoord without the branch of lines 111-112: nothing is written for a mesh
\* that has no uv layer.
TexcoordNoZeros(flag, u, loop_index) ==
    IF flag /\ ~u.is_none
    THEN LET uv == u.data[loop_index + 1] IN PackF(uv[1]) \o PackF(uv[2])
    ELSE << >>

\* lines 107-112
Texcoord(flag, u, loop_index) ==
    IF flag
    THEN IF ~u.is_none
         THEN LET uv == u.data[loop_index + 1] IN PackF(uv[1]) \o PackF(uv[2])
         ELSE PackF(0) \o PackF(0)
    ELSE << >>

\* lines 93-112 for corner i of polygon p, appending to d: the buffer after,
\* and whether the corner was completed without an exception.
Corner(mesh, p, i, u, flag, d) ==
    LET loop_index == LoopIndices(mesh, p)[i + 1]
        vertex_index == LoopVertex(mesh.polygons, 1, loop_index)
        d1 == d \o PositionNormal(vertex_index, loop_index)
    IN  IF vertex_index # mesh.polygons[p][i + 1]
        THEN [ok |-> FALSE, data |-> d]
        ELSE IF ~ColorReadable(mesh, p, i)
        THEN [ok |-> FALSE, data |-> d1]
        ELSE LET col == Col(mesh, p, i) IN
             IF ~(FitsB(ChannelByte(col.r)) /\ FitsB(ChannelByte(col.g))
                    /\ FitsB(ChannelByte(col.b)))
             THEN [ok |-> FALSE, data |-> d1]
             ELSE [ok |-> TRUE,
                   data |-> AppendColor(d1, col) \o Texcoord(flag, u, loop_index)]

\* line 92: corners i, i+1, ..., 2 in turn, stopping at the first exception.
RECURSIVE Corners(_, _, _, _, _, _)
Corners(mesh, p, i, u, flag, d) ==
    IF i = 3 THEN [ok |-> TRUE, data |-> d]
    ELSE LET r == Corner(mesh, p, i, u, flag, d)
         IN  IF r.ok THEN Corners(mesh, p, i + 1, u, flag, r.data) ELSE r

\* ---------------------------------------------------------------- actions
\* NameEnd counting the characters of the name, not its bytes.
NameEndChars(s, name) == Len(s) + Len(name)

\* lines 74-75: len(strings) after the name's bytes are appended.
NameEnd(s, name) == Len(s \o Utf8(name))

\* IndexRecord with the end of the range in polygons, not in vertices.
IndexRecordPolys(name_begin, name_end, vc, npolys) ==
    PackI(name_begin) \o PackI(name_end) \o PackI(vc) \o PackI(vc + npolys)

\* lines 76-80: the index record of one mesh.
IndexRecord(name_begin, name_end, vc, npolys) ==
    PackI(name_begin) \o PackI(name_end) \o PackI(vc) \o PackI(vc + npolys * 3)

\* lines 82-87
SelectUvs(flag, mesh) ==
    IF flag /\ mesh.has_uv THEN [is_none |-> FALSE, data |-> UvData(mesh)]
    ELSE NoUvs

\* lines 48 and 85: what the start of a mesh prints.
MeshPrints(flag, mesh, name) ==
    << [kind |-> "Writing", name |-> name] >>
    \o (IF flag /\ ~mesh.has_uv
        THEN << [kind |-> "WARNING", name |-> name] >> ELSE << >>)

\* lines 47-87: take the next name, record it in strings and index, choose uvs.
BeginMesh ==
    /\ pc = "mesh"
    /\ name_i < Len(to_write)
    /\ LET name == to_write[name_i + 1]
           mesh == Lookup(objects, name).data
           name_begin == Len(strings)
           name_end == NameEnd(strings, name)
       IN  /\ strings' = strings \o Utf8(name)
           /\ index' = index \o IndexRecord(name_begin, name_end, vertex_count,
                                            Len(mesh.polygons))
           /\ uvs' = SelectUvs(do_texcoord, mesh)
           /\ stdout' = stdout \o MeshPrints(do_texcoord, mesh, name)
    /\ name_i' = name_i + 1
    /\ poly_i' = 0
    /\ pc' = "poly"
    /\ UNCHANGED << do_texcoord, objects, to_write, data, vertex_count, outfile >>

\* IsTriangle with the assert of line 91 left out.
IsTriangleUnchecked(mesh, p) == TRUE

\* line 91
IsTriangle(mesh, p) == Len(LoopIndices(mesh, p)) = 3

\* lines 90-112: the next polygon; a failed assert or an exception ends the run.
Polygon ==
    /\ pc = "poly"
    /\ poly_i < Len(CurMesh.polygons)
    /\ LET p == poly_i + 1
           r == Corners(CurMesh, p, 0, uvs, do_texcoord, data)
       IN  IF ~IsTriangle(CurMesh, p)
           THEN /\ pc' = "aborted"
                /\ data' = data
           ELSE /\ pc' = IF r.ok THEN "poly" ELSE "aborted"
                /\ data' = r.data
    /\ poly_i' = poly_i + 1
    /\ UNCHANGED << do_texcoord, objects, to_write, strings, index, vertex_count,
                    name_i, uvs, outfile, stdout >>

\* line 113, at the end of the loop of line 90.
EndMesh ==
    /\ pc = "poly"
    /\ poly_i = Len(CurMesh.polygons)
    /\ vertex_count' = vertex_count + Len(CurMesh.polygons) * 3
    /\ pc' = "mesh"
    /\ UNCHANGED << do_texcoord, objects, to_write, data, strings, index,
                    name_i, poly_i, uvs, outfile, stdout >>

\* line 116: the record size the final assert expects.
AssertRecordSize == 4 * 3 + 4 * 3 + 4 * 1

\* line 116
LengthAsExpected(vc, d) == vc * AssertRecordSize = Len(d)

FinalAssert ==
    /\ pc = "mesh"
    /\ name_i = Len(to_write)
    /\ pc' = IF LengthAsExpected(vertex_count, data) THEN "open" ELSE "aborted"
    /\ UNCHANGED << do_texcoord, objects, to_write, data, strings, index,
                    vertex_count, name_i, poly_i, uvs, outfile, stdout >>

\* line 119: open(outfile, 'wb') creates the file, or empties it.
OpenBlob ==
    /\ pc = "open"
    /\ outfile' = [exists |-> TRUE, bytes |-> << >>]
    /\ pc' = "dat0"
    /\ UNCHANGED << do_texcoord, objects, to_write, data, strings, index,
                    vertex_count, name_i, poly_i, uvs, stdout >>

TagDat0 == << 100, 97, 116, 48 >>
TagStr0 == << 115, 116, 114, 48 >>
TagIdx0 == << 105, 100, 120, 48 >>

\* Chunk with the header counted in the length.
ChunkLengthWithHeader(tag, payload) ==
    Tag(tag) \o PackI(Len(payload) + 8) \o payload

\* lines 121-123, 125-127, 129-131: type, length, payload.
Chunk(tag, payload) == Tag(tag) \o PackI(Len(payload)) \o payload

WriteChunk(at, tag, payload, next) ==
    /\ pc = at
    /\ outfile' = [outfile EXCEPT !.bytes = @ \o Chunk(tag, payload)]
    /\ pc' = next
    /\ UNCHANGED << do_texcoord, objects, to_write, data, strings, index,
                    vertex_count, name_i, poly_i, uvs, stdout >>

WriteData == WriteChunk("dat0", TagDat0, data, "str0")
WriteStrings == WriteChunk("str0", TagStr0, strings, "idx0")
WriteIndex == WriteChunk("idx0", TagIdx0, index, "report")

\* line 133: blob.tell() and the three terms of the message.
WroteMessage(tell, d, s, x) ==
    [kind |-> "Wrote", tell |-> tell,
     data |-> Len(d) + 8, strings |-> Len(s) + 8, index |-> Len(x) + 8]

Report ==
    /\ pc = "report"
    /\ stdout' = Append(stdout, WroteMessage(Len(outfile.bytes), data, strings, index))
    /\ pc' = "close"
    /\ UNCHANGED << do_texcoord, objects, to_write, data, strings, index,
                    vertex_count, name_i, poly_i, uvs, outfile >>

\* line 135
Close ==
    /\ pc = "close"
    /\ pc' = "done"
    /\ UNCHANGED << do_texcoord, objects, to_write, data, strings, index,
                    vertex_count, name_i, poly_i, uvs, outfile, stdout >>

Next ==
    \/ BeginMesh
    \/ Polygon
    \/ EndMesh
    \/ FinalAssert
    \/ OpenBlob
    \/ WriteData
    \/ WriteStrings
    \/ WriteIndex
    \/ Report
    \/ Close

Spec == Init /\ [][Next]_vars

\* ------------------------------------------------- reading the results back
\* struct.unpack('I') of the four bytes of b after the first off bytes.
UnpackI(b, off) ==
    b[off + 1] + (256 * b[off + 2]) + (65536 * b[off + 3]) + (16777216 * b[off + 4])

\* b[from:to] of Python.
Slice(b, from, to) == SubSeq(b, from + 1, to)

\* The chunk that starts after the first off bytes of the file.
FileChunk(off) ==
    LET b == outfile.bytes
        n == UnpackI(b, off + 4)
    IN  [tag |-> Slice(b, off, off + 4), len |-> n,
         payload |-> Slice(b, off + 8, off + 8 + n), end |-> off + 8 + n]

FileDat == FileChunk(0)
FileStr == FileChunk(FileDat.end)
FileIdx == FileChunk(FileStr.end)

\* The file holds its three chunks.
FileWritten == pc \in { "report", "close", "done" }

\* The mesh the k-th iteration of the loop of line 47 works on.
MeshAt(k) == Lookup(objects, to_write[k]).data

\* The polygons of the first k meshes processed.
RECURSIVE PolysThrough(_)
PolysThrough(k) == IF k = 0 THEN 0 ELSE PolysThrough(k - 1) + Len(MeshAt(k).polygons)

\* The record size the format gives each vertex.
RecordSize(flag) == IF flag THEN 36 ELSE 28

\* The k-th index record of the file, decoded.
IndexEntry(k) ==
    LET x == FileIdx.payload
        off == 16 * (k - 1)
    IN  [name_begin |-> UnpackI(x, off), name_end |-> UnpackI(x, off + 4),
         vertex_begin |-> UnpackI(x, off + 8), vertex_end |-> UnpackI(x, off + 12)]

\* The objects of type MESH, in scene order.
MeshObjects == SelectSeq(objects, LAMBDA o : o.type = "MESH")

\* ------------------------------------------------------------------ claims
\* C1: in every written file the geometry payload is vertex_count * record_size
\* bytes long, vertex_count being 3 * the triangles of all processed meshes and
\* record_size 28 without texcoords and 36 with them.
C1_GeometryLength ==
    FileWritten =>
        /\ vertex_count = 3 * PolysThrough(Len(to_write))
        /\ FileDat.len = vertex_count * RecordSize(do_texcoord)
        /\ Len(FileDat.payload) = vertex_count * RecordSize(do_texcoord)

C1_Witness ==
    /\ pc = "done"
    /\ ~do_texcoord
    /\ Len(to_write) = 3
    /\ Len(MeshAt(1).polygons) = 2
    /\ Len(MeshAt(2).polygons) = 0
    /\ Len(MeshAt(3).polygons) = 1
    /\ Len(FileDat.payload) = 9 * 28

\* C2: after a successful export the index holds one record per processed mesh,
\* the k-th with vertex_begin = 3 * (triangles of the meshes before) and
\* vertex_end = vertex_begin + 3 * (triangles of the k-th); the ranges start at
\* 0, each begins where the one before ends, and the last ends at vertex_count.
C2_IndexPartition ==
    pc = "done" =>
        LET n == Len(to_write) IN
        /\ n = Len(MeshObjects)
        /\ FileIdx.len = 16 * n
        /\ Len(FileIdx.payload) = 16 * n
        /\ \A k \in 1..n :
              /\ IndexEntry(k).vertex_begin = 3 * PolysThrough(k - 1)
              /\ IndexEntry(k).vertex_end
                    = IndexEntry(k).vertex_begin + (3 * Len(MeshAt(k).polygons))
              /\ \A p \in 1..Len(MeshAt(k).polygons) : Len(MeshAt(k).polygons[p]) = 3
              /\ k = 1 => IndexEntry(k).vertex_begin = 0
              /\ k > 1 => IndexEntry(k).vertex_begin = IndexEntry(k - 1).vertex_end
              /\ k = n => IndexEntry(k).vertex_end = vertex_count
        /\ n = 0 => vertex_count = 0

C2_Witness ==
    /\ pc = "done"
    /\ Len(to_write) = 2
    /\ IndexEntry(1).vertex_begin = 0
    /\ IndexEntry(1).vertex_end = 6
    /\ IndexEntry(2).vertex_begin = 6
    /\ IndexEntry(2).vertex_end = 9

\* C3: after a successful export the bytes of the strings payload between
\* name_begin and name_end of the k-th record are the UTF-8 encoding of the name
\* of the k-th mesh object, and each name begins where the one before ends: the
\* payload is the names one after another with nothing between.
C3_NameSlices ==
    pc = "done" =>
        LET n == Len(to_write) IN
        /\ n = Len(MeshObjects)
        /\ \A k \in 1..n :
              /\ to_write[k] = MeshObjects[k].name
              /\ Slice(FileStr.payload, IndexEntry(k).name_begin, IndexEntry(k).name_end)
                    = Utf8(MeshObjects[k].name)
              /\ IndexEntry(k).name_begin
                    = (IF k = 1 THEN 0 ELSE IndexEntry(k - 1).name_end)
              /\ k = n => IndexEntry(k).name_end = Len(FileStr.payload)
        /\ n = 0 => FileStr.payload = << >>

\* Two equal names around an empty one (a prefix of both): "A", "", "A".
C3_Witness ==
    /\ pc = "done"
    /\ to_write = << NameA, NameEmpty, NameA >>
    /\ FileStr.payload = << 65, 65 >>
    /\ IndexEntry(1).name_begin = 0
    /\ IndexEntry(1).name_end = 1
    /\ IndexEntry(2).name_begin = 1
    /\ IndexEntry(2).name_end = 1
    /\ IndexEntry(3).name_begin = 1
    /\ IndexEntry(3).name_end = 2

\* Some processed mesh has a polygon that is no triangle.
HasNonTriangle ==
    \E k \in 1..Len(to_write) :
        \E p \in 1..Len(MeshAt(k).polygons) : Len(MeshAt(k).polygons[p]) # 3

\* C4: when a mesh of the list, at whatever place, has a polygon whose corner
\* count is not 3, the loop over the meshes never completes, and the output file
\* is neither created nor written.
C4_NonTriangleAborts ==
    HasNonTriangle =>
        /\ ~outfile.exists
        /\ outfile.bytes = << >>
        /\ pc \notin { "open", "dat0", "str0", "idx0", "report", "close", "done" }
        /\ ~(pc = "mesh" /\ name_i = Len(to_write))

\* The quad is in the last of three meshes, after two meshes were encoded.
C4_Witness ==
    /\ pc = "aborted"
    /\ Len(to_write) = 3
    /\ name_i = 3
    /\ ~IsTriangle(MeshAt(3), poly_i)
    /\ Len(data) > 0
    /\ vertex_count > 0
    /\ ~outfile.exists

\* The mesh can be encoded without a failed assert or an exception of lines
\* 91-105: triangles only, an active color layer, every vertex index inside it.
Encodable(mesh) ==
    /\ mesh.has_color
    /\ \A p \in 1..Len(mesh.polygons) :
          /\ Len(mesh.polygons[p]) = 3
          /\ \A i \in 0..2 : mesh.polygons[p][i + 1] < Len(ColorData(mesh))

\* The record of the v-th vertex (from 0) of the geometry payload of the file.
FileRecord(v) ==
    Slice(FileDat.payload, v * RecordSize(do_texcoord), (v + 1) * RecordSize(do_texcoord))

\* C5: with texcoords enabled, a mesh without a uv layer does not stop the
\* export: a warning is printed, the file is written, and every corner of that
\* mesh has the texcoord (0.0, 0.0) at the end of its 36-byte record.
C5_NoUvLayerSucceeds ==
    ( /\ do_texcoord
      /\ \A k \in 1..Len(to_write) : Encodable(MeshAt(k))
      /\ \E k \in 1..Len(to_write) :
            ~MeshAt(k).has_uv /\ Len(MeshAt(k).polygons) > 0 )
    => /\ pc # "aborted"
       /\ FileWritten =>
             \A k \in 1..Len(to_write) :
                 ~MeshAt(k).has_uv =>
                     /\ \E m \in 1..Len(stdout) :
                           stdout[m] = [kind |-> "WARNING", name |-> to_write[k]]
                     /\ \A v \in (3 * PolysThrough(k - 1))..(3 * PolysThrough(k) - 1) :
                           Slice(FileRecord(v), 28, 36) = << 0, 0, 0, 0, 0, 0, 0, 0 >>

\* What follows an abort in the loop over the meshes: the loop never completes
\* and the output file is neither created nor written.
NothingWritten ==
    /\ ~outfile.exists
    /\ outfile.bytes = << >>
    /\ pc \in { "mesh", "poly", "aborted" }
    /\ pc = "mesh" => name_i < Len(to_write)

\* C6 as stated: a mesh of the list without an active color layer, with or
\* without polygons, stops the export before any file is written.
C6_AnyMissingColorAborts ==
    (\E k \in 1..Len(to_write) : ~MeshAt(k).has_color) =>
        ~outfile.exists /\ pc # "done"

\* C6, amended: a mesh of the list that has at least one polygon and no active
\* color layer stops the export before any file is written; a mesh without
\* polygons needs no color layer: when every mesh is either without polygons or
\* encodable (and no 36-byte record meets the assert of line 116), the export
\* does not abort.
C6_MissingColorAborts ==
    /\ (\E k \in 1..Len(to_write) :
          ~MeshAt(k).has_color /\ Len(MeshAt(k).polygons) > 0) => NothingWritten
    /\ ( /\ \A k \in 1..Len(to_write) :
              Len(MeshAt(k).polygons) = 0 \/ Encodable(MeshAt(k))
         /\ do_texcoord => PolysThrough(Len(to_write)) = 0 )
       => pc # "aborted"

\* The second mesh has a triangle and no color layer; the first was encoded.
C6_Witness ==
    /\ pc = "aborted"
    /\ name_i = 2
    /\ ~CurMesh.has_color
    /\ poly_i = 1
    /\ Len(MeshAt(1).polygons) = 1
    /\ Len(data) = (3 * RecordSize(do_texcoord)) + 24
    /\ ~outfile.exists

\* C7: a written file is the chunks 'dat0', 'str0', 'idx0' in this order and
\* nothing else, each a 4-byte tag, the 4-byte length of its payload and the
\* payload (geometry, strings, index); the index is 16 bytes per mesh; the
\* byte count reported is the size of the file, and is the sum of the three
\* reported terms, each 8 + the length of a payload.
C7_ChunkLayout ==
    /\ FileWritten =>
          /\ FileDat.tag = << 100, 97, 116, 48 >>
          /\ FileDat.len = Len(data)
          /\ FileDat.payload = data
          /\ FileStr.tag = << 115, 116, 114, 48 >>
          /\ FileStr.len = Len(strings)
          /\ FileStr.payload = strings
          /\ FileIdx.tag = << 105, 100, 120, 48 >>
          /\ FileIdx.len = Len(index)
          /\ FileIdx.payload = index
          /\ FileIdx.len = 16 * Len(MeshObjects)
          /\ FileIdx.end = Len(outfile.bytes)
          /\ Len(outfile.bytes) = (8 + Len(data)) + (8 + Len(strings)) + (8 + Len(index))
    /\ pc \in { "close", "done" } =>
          LET m == stdout[Len(stdout)] IN
          /\ m.kind = "Wrote"
          /\ m.tell = Len(outfile.bytes)
          /\ m.data = 8 + FileDat.len
          /\ m.strings = 8 + FileStr.len
          /\ m.index = 8 + FileIdx.len
          /\ m.tell = m.data + m.strings + m.index

\* One mesh named "A" of one triangle: 84 + 1 + 16 bytes of payload.
C7_Witness ==
    /\ pc = "done"
    /\ to_write = << NameA >>
    /\ FileDat.len = 84
    /\ FileStr.len = 1
    /\ FileIdx.len = 16
    /\ stdout[Len(stdout)].tell = 125

\* a is the beginning of b.
IsPrefix(a, b) == Len(a) <= Len(b) /\ SubSeq(b, 1, Len(a)) = a

\* A step leaves each buffer a prefix of what it becomes; a step that
\* adds a name or an index record starts the next mesh when all records of the
\* meshes before are in the geometry buffer; a step that adds geometry adds
\* records of the running mesh only, whose name and index record are the last
\* ones; and no buffer changes once the output file is open.
C8_Step ==
    LET size == RecordSize(do_texcoord) IN
    /\ IsPrefix(data, data')
    /\ IsPrefix(strings, strings')
    /\ IsPrefix(index, index')
    /\ (strings' # strings \/ index' # index) =>
          /\ data' = data
          /\ name_i' = name_i + 1
          /\ strings' = strings \o Utf8(to_write[name_i'])
          /\ Len(index) = 16 * name_i
          /\ Len(index') = 16 * name_i'
          /\ Len(data) = size * 3 * PolysThrough(name_i)
    /\ data' # data =>
          /\ strings' = strings
          /\ index' = index
          /\ name_i' = name_i
          /\ Len(index) = 16 * name_i
          /\ Len(data) >= size * 3 * PolysThrough(name_i - 1)
          /\ Len(data') <= size * 3 * PolysThrough(name_i)
    /\ (outfile.exists \/ outfile'.exists) => UNCHANGED << data, strings, index >>

\* C8: every step of the export is a C8_Step: the buffers are append-only, the
\* meshes are handled one after another, and nothing changes a buffer once the
\* output file is open.
C8_AppendOnly == [][C8_Step]_vars

\* The second mesh is half encoded, after a first mesh with polygons.
C8_Witness ==
    /\ pc = "poly"
    /\ name_i = 2
    /\ poly_i = 1
    /\ Len(CurMesh.polygons) = 2
    /\ PolysThrough(1) > 0
    /\ Len(data) = RecordSize(do_texcoord) * ((3 * PolysThrough(1)) + 3)
    /\ Len(index) = 32

\* The run has ended: the buffers hold every record that was emitted (the
\* buffers only grow, C8).
Ended == pc \in { "done", "aborted" }

\* The corners whose record is in the geometry buffer: <<k, p, i>> is corner i
\* of polygon p of the k-th mesh processed.
EmittedCorners ==
    { c \in (1..name_i) \X (1..MaxPolys) \X (0..2) :
        /\ c[2] <= Len(MeshAt(c[1]).polygons)
        /\ (c[1] < name_i \/ c[2] <= poly_i)
        /\ ((3 * PolysThrough(c[1] - 1)) + (3 * (c[2] - 1)) + c[3] + 1)
              * RecordSize(do_texcoord) <= Len(data) }

\* The record of an emitted corner.
CornerRecord(c) ==
    LET v == (3 * PolysThrough(c[1] - 1)) + (3 * (c[2] - 1)) + c[3]
    IN  Slice(data, v * RecordSize(do_texcoord), (v + 1) * RecordSize(do_texcoord))

\* The vertex index and the loop index of a corner of a mesh of triangles.
CornerVertex(c) == MeshAt(c[1]).polygons[c[2]][c[3] + 1]
CornerLoop(c) == (3 * (c[2] - 1)) + c[3]

\* The entry of the mesh's color layer at position l.
LayerEntry(c, l) == ColorAt(MeshAt(c[1]).color_kind, l)

\* The color bytes of a layer entry as the format gives them.
Encoded(col) ==
    << (col.r[1] * 255) \div col.r[2], (col.g[1] * 255) \div col.g[2],
       (col.b[1] * 255) \div col.b[2], 255 >>

\* The emitted corners of the k-th mesh processed.
EmittedOf(k) == { c \in EmittedCorners : c[1] = k }

\* When the run has ended, the color bytes of every emitted record are those of
\* the layer entry at the corner's vertex index, so corners of one mesh on one
\* vertex have equal bytes.
ColorByVertexIndex ==
    Ended =>
    \A k \in 1..name_i :
        LET corners == EmittedOf(k) IN
        \A c \in corners :
            LET bytes == Slice(CornerRecord(c), 24, 28) IN
            /\ bytes = Encoded(LayerEntry(c, CornerVertex(c)))
            /\ \A d \in corners :
                  CornerVertex(d) = CornerVertex(c) =>
                      Slice(CornerRecord(d), 24, 28) = bytes

\* C9 as stated: the color of a corner is read at its vertex index, and the
\* bytes written differ from those of the corner's own color whenever the layer
\* entries at the vertex index and at the loop index differ.
C9_DiffersWheneverEntriesDiffer ==
    /\ ColorByVertexIndex
    /\ Ended => \A c \in EmittedCorners :
          LayerEntry(c, CornerVertex(c)) # LayerEntry(c, CornerLoop(c)) =>
              Slice(CornerRecord(c), 24, 28) # Encoded(LayerEntry(c, CornerLoop(c)))

\* C9, amended: the color of a corner is read at its vertex index, and the
\* bytes written differ from those of the corner's own color whenever the two
\* layer entries differ in the bytes they are encoded to.
C9_ColorByVertexIndex ==
    /\ ColorByVertexIndex
    /\ Ended => \A c \in EmittedCorners :
          Encoded(LayerEntry(c, CornerVertex(c))) # Encoded(LayerEntry(c, CornerLoop(c))) =>
              Slice(CornerRecord(c), 24, 28) # Encoded(LayerEntry(c, CornerLoop(c)))

\* Two corners on vertex 1 whose own colors differ got equal bytes, and a
\* corner got bytes that are not those of its own color.
C9_Witness ==
    /\ pc = "done"
    /\ \E c \in EmittedCorners : \E d \in EmittedCorners :
          /\ c[1] = d[1]
          /\ c # d
          /\ CornerVertex(c) = CornerVertex(d)
          /\ Encoded(LayerEntry(c, CornerLoop(c))) # Encoded(LayerEntry(d, CornerLoop(d)))
          /\ Slice(CornerRecord(c), 24, 28) = Slice(CornerRecord(d), 24, 28)
          /\ Slice(CornerRecord(d), 24, 28) # Encoded(LayerEntry(d, CornerLoop(d)))

\* b = floor(c * 255) for the channel c = num/den.
IsFloor255(b, c) == b * c[2] <= c[1] * 255 /\ c[1] * 255 < (b + 1) * c[2]

\* What the color bytes of a channel must be.
ChannelRule(b, c) ==
    /\ b \in 0..255
    /\ IsFloor255(b, c)
    /\ c[1] = c[2] => b = 255
    /\ c[1] = 0 => b = 0
    /\ c[1] < c[2] => b <= 254

\* C10: when the run has ended, every emitted record is the 12 bytes of the
\* position, the 12 bytes of the normal, then r, g, b, a with a = 255 and r, g, b
\* the floor of 255 times the channel read (a value in [0,1]): 255 for 1.0, 0 for
\* 0.0, at most 254 below 1.0, always within 0..255.
C10_ColorBytes ==
    Ended =>
    \A c \in EmittedCorners :
        LET rec == CornerRecord(c)
            col == LayerEntry(c, CornerVertex(c))
        IN  /\ Len(rec) = RecordSize(do_texcoord)
            /\ Slice(rec, 0, 24) = PositionNormal(CornerVertex(c), CornerLoop(c))
            /\ \A ch \in { col.r, col.g, col.b } : ch[1] >= 0 /\ ch[1] <= ch[2]
            /\ ChannelRule(rec[25], col.r)
            /\ ChannelRule(rec[26], col.g)
            /\ ChannelRule(rec[27], col.b)
            /\ rec[28] = 255

\* A record with the channels 999/1000, 1/2 and 0 as 254, 127 and 0.
C10_Witness ==
    /\ pc = "done"
    /\ \E c \in EmittedCorners :
          /\ LayerEntry(c, CornerVertex(c)).r = << 999, 1000 >>
          /\ Slice(CornerRecord(c), 24, 28) = << 254, 127, 0, 255 >>

====
